---- MODULE Spec2Model ----
(***************************************************************************)
(* Session / message / metadata store (backend/chat_history.py) and the    *)
(* quiz endpoints layered on it (backend/app.py).                          *)
(*                                                                         *)
(* Every database access of a handler is one step of the process running   *)
(* the request; update_session_metadata is a SELECT step followed by an    *)
(* UPDATE step, as in the source.                                          *)
(***************************************************************************)
EXTENDS Integers, Sequences, FiniteSets, TLC

\* ------------------------------------------------------------- bounds
MaxSessions == 2
MaxClock == 1
MaxMessages == 2
MaxLimit == 2
MaxQuestions == 2
MaxAnswer == 1
MaxHistory == 2
MaxTz == 1
MaxQuizSessions == 1
MaxConns == 2
MaxResets == 1
MaxLogLines == 2

\* ---------------------------------------------------- program constants
num_questions == 10
\* update_title keeps title[:50]
TitleLimit == 50
NoSessionId == 0

\* ------------------------------------------------------------- domains
Procs == {"p1", "p2"}
SeqProc == "p1"
SessionIds == 1 .. MaxSessions
\* the session ids quiz requests carry (NoSessionId: none given)
RequestIds == {NoSessionId} \cup (1 .. MaxQuizSessions)
NoneVal == "None"
SubjectInputs == {NoneVal, "", "Biology"}
NoteValues == {"n1", "n2"}
AnswerIndexes == 0 .. MaxAnswer
MessageInputs ==
    { [role |-> "user", content |-> "Hello", provider |-> NoneVal],
      [role |-> "assistant", content |-> "Hi there!", provider |-> "x"] }

\* ------------------------------------------------------- python helpers
\* variant: only None counts as missing
Truthy_NoneOnly(v) == v # NoneVal

\* truthiness of None / str values (`if subject`, `if not session_id`)
Truthy(v) == v # NoneVal /\ v # ""

\* seq[:n]
Take(seq, n) == SubSeq(seq, 1, IF n < Len(seq) THEN n ELSE Len(seq))

\* list(reversed(seq))
Reversed(seq) == [i \in 1 .. Len(seq) |-> seq[Len(seq) + 1 - i]]

\* the empty dict {}
EmptyDoc == [k \in {} |-> 0]

\* k in d
HasKey(d, k) == \E x \in DOMAIN d : x = k

\* d.get(k): None when the key is missing
DictGet(d, k) == IF HasKey(d, k) THEN d[k] ELSE NoneVal

\* d[k] = v on a dict
DictSet(d, k, v) == [x \in (DOMAIN d) \cup {k} |-> IF x = k THEN v ELSE d[x]]

\* the metadata column: NULL, the text json.dumps wrote, or text that
\* json.loads rejects
NullMeta == [null |-> TRUE]
JsonDumps(d) == [null |-> FALSE, valid |-> TRUE, json |-> d]
NotJson == [null |-> FALSE, valid |-> FALSE, json |-> EmptyDoc]

\* the title column: NULL, or a text (a sequence of characters)
NullTitle == [null |-> TRUE]
TitleText(s) == [null |-> FALSE, text |-> s]

\* what a JSONDecodeError that is not caught leaves the caller with
DecodeError == [JSONDecodeError |-> TRUE]

\* variant: json.loads outside a try block
LoadMeta_Unguarded(col) ==
    IF col.null THEN EmptyDoc ELSE IF col.valid THEN col.json ELSE DecodeError

\* try: json.loads(row[0]) if row[0] else {}  except: {}
LoadMeta(col) ==
    IF col.null THEN EmptyDoc ELSE IF col.valid THEN col.json ELSE EmptyDoc

\* ---------------------------------------------------------------- state
VARIABLES
    clock,          \* the database server's time (CURRENT_TIMESTAMP / NOW())
    tz,             \* offset of the application's local time from it
    is_postgres,    \* ChatHistoryDB._is_postgres
    sessions,       \* table sessions: id -> row, or NoRow
    used,           \* ids create_session has returned so far
    messages,       \* table messages, in rowid order
    next_msg_id,    \* AUTOINCREMENT / SERIAL sequence
    pc,             \* each request's position
    loc,            \* each request's local variables
    resp,           \* each request's last response
    conns,          \* database connections that are open: held by a
                    \* running operation, or dropped without a close()
    singleton,      \* chat_history._db_instance (0: None), and how many
                    \* times ChatHistoryDB() ran (made: ever; built: since
                    \* the last reset; epoch: number of resets)
    schema,         \* the database's tables with their columns, its index,
                    \* and the lines of db_migration_error.log (counted up
                    \* to MaxLogLines)
    tally           \* per session: accepted advances (counted up to
                    \* MaxQuestions + 1) and correct answers (counted up to
                    \* MaxHistory + 1) since the quiz was last started
                    \* (history variable)

vars == <<clock, tz, is_postgres, sessions, used, messages, next_msg_id,
          pc, loc, resp, conns, singleton, schema, tally>>

dbvars == <<sessions, used, messages, next_msg_id>>
\* what the store and quiz operations below leave as it is
envvars == <<clock, tz, is_postgres, conns, singleton, schema>>

NoRow == [present |-> FALSE]
NoLoc == [op |-> "none"]
NoResp == [op |-> "none"]
ZeroTally == [advances |-> 0, correct |-> 0]
NoConns == [held |-> 0, dropped |-> 0]
NoSingleton == [instance |-> 0, made |-> 0, built |-> 0, epoch |-> 0]

\* ----------------------------------------------------------- the schema
\* the columns the CREATE TABLE statements name
SessionsColumns == {"id", "title", "created_at", "updated_at", "metadata"}
MessagesColumns == {"id", "session_id", "role", "content", "provider", "created_at"}

\* a database without tables (a table without columns stands for no table)
NoSchema == [sessions |-> {}, messages |-> {}, index |-> FALSE, log |-> 0]

\* CREATE TABLE IF NOT EXISTS t (cols)
CreateTable(s, t, cols) == IF s[t] = {} THEN [s EXCEPT ![t] = cols] ELSE s

\* ALTER TABLE t ADD COLUMN c, which SQLite refuses for a column the table
\* has, and ALTER TABLE t ADD COLUMN IF NOT EXISTS c (postgres)
AddColumn(s, t, c, postgres) ==
    IF c \in s[t]
    THEN [schema |-> s, raised |-> ~postgres]
    ELSE [schema |-> [s EXCEPT ![t] = @ \cup {c}], raised |-> FALSE]

\* CREATE INDEX IF NOT EXISTS idx_messages_session
CreateIndex(s) == [s EXCEPT !.index = TRUE]

\* a line appended to db_migration_error.log
Logged(s) == [s EXCEPT !.log = IF @ < MaxLogLines THEN @ + 1 ELSE @]

\* variant: ALTER TABLE outside a try block
TryAddColumn_Unguarded(r, t, c, postgres, logs) ==
    IF ~r.ok THEN r
    ELSE LET a == AddColumn(r.schema, t, c, postgres)
         IN  [schema |-> a.schema, ok |-> ~a.raised]

\* try: ALTER TABLE t ADD COLUMN c  except Exception: pass, or a log line
\* (r: the schema so far and whether the statements so far went through)
TryAddColumn(r, t, c, postgres, logs) ==
    IF ~r.ok THEN r
    ELSE LET a == AddColumn(r.schema, t, c, postgres)
         IN  [schema |-> IF a.raised /\ logs THEN Logged(a.schema) ELSE a.schema,
              ok |-> TRUE]

\* a statement that cannot fail, after the statements before it went through
Then(r, s) == IF r.ok THEN [r EXCEPT !.schema = s] ELSE r

\* _create_tables_sqlite / _create_tables_postgres, statement by statement
CreateTables(s, postgres) ==
    LET r1 == [schema |-> CreateTable(s, "sessions", SessionsColumns), ok |-> TRUE]
        r2 == TryAddColumn(r1, "sessions", "title", postgres, FALSE)
        r3 == TryAddColumn(r2, "sessions", "metadata", postgres, TRUE)
        r4 == Then(r3, CreateTable(r3.schema, "messages", MessagesColumns))
        r5 == TryAddColumn(r4, "messages", "provider", postgres, FALSE)
    IN  Then(r5, CreateIndex(r5.schema))

\* the tables and the index of a schema
Tables(s) == [sessions |-> s.sessions, messages |-> s.messages, index |-> s.index]

\* the schema the first construction leaves
FullSchema(postgres) == CreateTables(NoSchema, postgres).schema

\* datetime.now(): the application's local wall clock
PyNow == clock + tz

\* CURRENT_TIMESTAMP (SQLite, UTC) / NOW() (PostgreSQL)
SqlNow == clock

Init ==
    /\ clock = 0
    /\ is_postgres \in BOOLEAN
    /\ tz \in (IF is_postgres THEN {0} ELSE 0 .. MaxTz)
    /\ sessions = [s \in SessionIds |-> NoRow]
    /\ used = {}
    /\ messages = <<>>
    /\ next_msg_id = 1
    /\ pc = [p \in Procs |-> "idle"]
    /\ loc = [p \in Procs |-> NoLoc]
    /\ resp = [p \in Procs |-> NoResp]
    /\ conns = NoConns
    /\ singleton = NoSingleton
    /\ schema = FullSchema(is_postgres)
    /\ tally = [s \in SessionIds |-> ZeroTally]

\* ------------------------------------------------------- store queries
\* session_exists
session_exists(sid) == sid \in SessionIds /\ sessions[sid].present

\* get_session_metadata: {} for a missing row or a NULL column
get_session_metadata(sid) ==
    IF session_exists(sid) THEN LoadMeta(sessions[sid].metadata) ELSE EmptyDoc

\* get_session_subject
get_session_subject(sid) ==
    IF ~session_exists(sid) THEN NoneVal
    ELSE IF sessions[sid].metadata.null THEN NoneVal
    ELSE IF ~sessions[sid].metadata.valid THEN NoneVal
    ELSE DictGet(sessions[sid].metadata.json, "subject")

\* rows of one session, in rowid order
SessionRows(sid) == SelectSeq(messages, LAMBDA m : m.session_id = sid)

\* what the SELECT of get_session_messages projects
Project(m) ==
    [role |-> m.role, content |-> m.content, provider |-> m.provider,
     created_at |-> m.created_at]

\* the orders ORDER BY created_at DESC allows for a session's rows: every
\* arrangement with non-increasing created_at (rows with equal created_at
\* come in an order SQL leaves unspecified)
OrderByCreatedDesc(sid) ==
    LET rows == SessionRows(sid)
        n == Len(rows)
        Perms == { f \in [1 .. n -> 1 .. n] : \A i, j \in 1 .. n : i # j => f[i] # f[j] }
    IN  { [i \in 1 .. n |-> rows[f[i]]] : f \in
            { g \in Perms : \A i \in 1 .. n - 1 :
                  rows[g[i]].created_at >= rows[g[i + 1]].created_at } }

\* variant: an id no session has now
FreshId_Reuses ==
    CHOOSE sid \in SessionIds : ~sessions[sid].present /\
        \A other \in SessionIds : ~sessions[other].present => sid <= other

\* uuid.uuid4(): an id no session has had; ids are opaque, so the least
\* unused one stands for any of them
FreshId == CHOOSE sid \in SessionIds \ used : \A other \in SessionIds \ used : sid <= other

\* app.create_session: metadata = {"subject": subject} if subject else None
MetadataArg(subject) ==
    IF Truthy(subject)
    THEN [none |-> FALSE, doc |-> DictSet(EmptyDoc, "subject", subject)]
    ELSE [none |-> TRUE]

\* variant: the metadata argument is not stored
MetadataColumn_Dropped(arg) == NullMeta

\* ChatHistoryDB.create_session: json.dumps(metadata) if metadata else None
MetadataColumn(arg) ==
    IF ~arg.none /\ DOMAIN arg.doc # {} THEN JsonDumps(arg.doc) ELSE NullMeta

\* ------------------------------------------------------------- actions
Idle(p) == pc[p] = "idle"

Finish(p, r) ==
    /\ pc' = [pc EXCEPT ![p] = "idle"]
    /\ loc' = [loc EXCEPT ![p] = NoLoc]
    /\ resp' = [resp EXCEPT ![p] = r]

\* time passes
Tick ==
    /\ clock < MaxClock
    /\ clock' = clock + 1
    /\ UNCHANGED <<tz, is_postgres, conns, singleton, schema, dbvars, pc, loc, resp, tally>>

\* POST /sessions, and ChatHistoryDB.create_session under it
CreateSession(p, subject) ==
    /\ Idle(p)
    /\ used # SessionIds
    /\ LET sid == FreshId IN
        /\ sessions' = [sessions EXCEPT ![sid] =
                    [present |-> TRUE, title |-> NullTitle, created_at |-> SqlNow,
                     updated_at |-> SqlNow,
                     metadata |-> MetadataColumn(MetadataArg(subject))]]
        /\ used' = used \cup {sid}
        /\ tally' = [tally EXCEPT ![sid] = ZeroTally]
        /\ Finish(p, [op |-> "create_session", status |-> 201, session_id |-> sid])
    /\ UNCHANGED <<envvars, messages, next_msg_id>>

\* how the INSERT of add_message ends on a backend (postgres: TRUE for
\* PostgreSQL, FALSE for SQLite) for a session id
AddMessageOutcome(postgres, sid) ==
    IF postgres /\ ~session_exists(sid) THEN "IntegrityError" ELSE "ok"

\* ChatHistoryDB.add_message: the INSERT and the UPDATE of updated_at commit
\* together.  PostgreSQL rejects a session_id without a sessions row (foreign
\* key); SQLite, opened without PRAGMA foreign_keys, inserts it.
AddMessage(p, sid, m) ==
    /\ Idle(p)
    /\ Len(messages) < MaxMessages
    /\ IF AddMessageOutcome(is_postgres, sid) = "IntegrityError"
       THEN /\ Finish(p, [op |-> "add_message", status |-> "IntegrityError",
                          session_id |-> sid])
            /\ UNCHANGED <<dbvars>>
       ELSE /\ messages' = Append(messages,
                    [id |-> next_msg_id, session_id |-> sid, role |-> m.role,
                     content |-> m.content, provider |-> m.provider,
                     created_at |-> (IF is_postgres THEN SqlNow ELSE PyNow)])
            /\ next_msg_id' = next_msg_id + 1
            /\ sessions' = [s \in SessionIds |->
                    IF s = sid /\ sessions[s].present
                    THEN [sessions[s] EXCEPT !.updated_at =
                              IF is_postgres THEN SqlNow ELSE PyNow]
                    ELSE sessions[s]]
            /\ Finish(p, [op |-> "add_message", status |-> "ok", session_id |-> sid,
                          msg_id |-> next_msg_id])
            /\ UNCHANGED used
    /\ UNCHANGED <<envvars, tally>>

\* ChatHistoryDB.get_session_messages
GetSessionMessages(p, sid, limit) ==
    /\ Idle(p)
    /\ \E ordered \in OrderByCreatedDesc(sid) :
        LET fetched == Take(ordered, limit)
            rows == [i \in 1 .. Len(fetched) |-> Project(fetched[i])]
        IN  Finish(p, [op |-> "get_session_messages", status |-> "ok",
                       session_id |-> sid, limit |-> limit,
                       messages |-> Reversed(rows)])
    /\ UNCHANGED <<envvars, dbvars, tally>>

\* variant: the DELETEs run without the session_exists check
DeleteBegin_Unchecked(p, sid) ==
    /\ Idle(p)
    /\ pc' = [pc EXCEPT ![p] = "delete_rows"]
    /\ loc' = [loc EXCEPT ![p] = [op |-> "delete_session", sid |-> sid]]
    /\ resp' = [resp EXCEPT ![p] = NoResp]
    /\ UNCHANGED <<envvars, dbvars, tally>>

\* ChatHistoryDB.delete_session, first statement: session_exists
DeleteBegin(p, sid) ==
    /\ Idle(p)
    /\ IF session_exists(sid)
       THEN /\ pc' = [pc EXCEPT ![p] = "delete_rows"]
            /\ loc' = [loc EXCEPT ![p] = [op |-> "delete_session", sid |-> sid]]
            /\ resp' = [resp EXCEPT ![p] = NoResp]
       ELSE Finish(p, [op |-> "delete_session", status |-> "ok", session_id |-> sid,
                       deleted |-> FALSE])
    /\ UNCHANGED <<envvars, dbvars, tally>>

\* variant: the DELETE on messages has no WHERE clause
DeleteRows_AllMessages(p) ==
    /\ pc[p] = "delete_rows"
    /\ messages' = <<>>
    /\ sessions' = [sessions EXCEPT ![loc[p].sid] = NoRow]
    /\ Finish(p, [op |-> "delete_session", status |-> "ok", session_id |-> loc[p].sid,
                  deleted |-> TRUE])
    /\ UNCHANGED <<envvars, used, next_msg_id, tally>>

\* variant: only the sessions row is deleted
DeleteRows_SessionOnly(p) ==
    /\ pc[p] = "delete_rows"
    /\ sessions' = [sessions EXCEPT ![loc[p].sid] = NoRow]
    /\ Finish(p, [op |-> "delete_session", status |-> "ok", session_id |-> loc[p].sid,
                  deleted |-> TRUE])
    /\ UNCHANGED <<envvars, used, messages, next_msg_id, tally>>

\* variant: ids are taken from the largest id left in the table (a rowid
\* without AUTOINCREMENT)
DeleteRows_ResetsSequence(p) ==
    /\ pc[p] = "delete_rows"
    /\ LET sid == loc[p].sid
           left == SelectSeq(messages, LAMBDA m : m.session_id # sid)
       IN  /\ messages' = left
           /\ next_msg_id' = IF left = <<>> THEN 1 ELSE left[Len(left)].id + 1
           /\ sessions' = [sessions EXCEPT ![sid] = NoRow]
           /\ Finish(p, [op |-> "delete_session", status |-> "ok", session_id |-> sid,
                         deleted |-> TRUE])
    /\ UNCHANGED <<envvars, used, tally>>

\* ChatHistoryDB.delete_session, the two DELETEs in one transaction
DeleteRows(p) ==
    /\ pc[p] = "delete_rows"
    /\ LET sid == loc[p].sid
       IN  /\ messages' = SelectSeq(messages, LAMBDA m : m.session_id # sid)
           /\ sessions' = [sessions EXCEPT ![sid] = NoRow]
           /\ Finish(p, [op |-> "delete_session", status |-> "ok", session_id |-> sid,
                         deleted |-> TRUE])
    /\ UNCHANGED <<envvars, used, next_msg_id, tally>>

\* the orders ORDER BY updated_at DESC allows for the sessions rows: every
\* arrangement of the existing sessions with non-increasing updated_at
OrderByUpdatedDesc ==
    LET ids == { sid \in SessionIds : sessions[sid].present }
        n == Cardinality(ids)
    IN  { f \in [1 .. n -> ids] :
            /\ \A i, j \in 1 .. n : i # j => f[i] # f[j]
            /\ \A i \in 1 .. n - 1 :
                  sessions[f[i]].updated_at >= sessions[f[i + 1]].updated_at }

\* ChatHistoryDB.list_sessions
ListSessions(p, limit) ==
    /\ Idle(p)
    /\ \E ordered \in OrderByUpdatedDesc :
        LET fetched == Take(ordered, limit)
        IN  Finish(p, [op |-> "list_sessions", status |-> "ok", limit |-> limit,
                       sessions |-> [i \in 1 .. Len(fetched) |->
                            [id |-> fetched[i],
                             title |-> sessions[fetched[i]].title,
                             created_at |-> sessions[fetched[i]].created_at,
                             updated_at |-> sessions[fetched[i]].updated_at,
                             metadata |-> sessions[fetched[i]].metadata]]])
    /\ UNCHANGED <<envvars, dbvars, tally>>

\* ---------------------------------------------------------------- title
\* "New Chat"
NewChat == <<"N", "e", "w", " ", "C", "h", "a", "t">>

\* a text of n characters c
Chars(n, c) == [i \in 1 .. n |-> c]

\* the raw texts update_title is called with: empty, short, of exactly
\* TitleLimit characters, and one character longer
TitleInputs ==
    { <<>>, <<"H", "i">>, Chars(TitleLimit, "a"), Chars(TitleLimit, "a") \o <<"b">> }

\* variant: the text is stored whole
NewTitle_Untruncated(title) == IF title # <<>> THEN title ELSE NewChat

\* title = title[:50] if title else "New Chat"
NewTitle(title) == IF title # <<>> THEN Take(title, TitleLimit) ELSE NewChat

\* ChatHistoryDB.update_title: UPDATE sessions SET title = ? WHERE id = ?
\* (no row is touched when the session does not exist)
UpdateTitle(p, sid, title) ==
    /\ Idle(p)
    /\ sessions' = [sessions EXCEPT ![sid] =
                IF @.present THEN [@ EXCEPT !.title = TitleText(NewTitle(title))] ELSE @]
    /\ Finish(p, [op |-> "update_title", status |-> "ok", session_id |-> sid,
                  title |-> title])
    /\ UNCHANGED <<envvars, used, messages, next_msg_id, tally>>

\* ------------------------------------------------------ metadata store
\* ChatHistoryDB.get_session_metadata as a call of its own
GetMetadata(p, sid) ==
    /\ Idle(p)
    /\ Finish(p, [op |-> "get_session_metadata", status |-> "ok", session_id |-> sid,
                  document |-> get_session_metadata(sid)])
    /\ UNCHANGED <<envvars, dbvars, tally>>

\* a call of ChatHistoryDB.update_session_metadata(sid, key, value)
CallUpdate(p, l) ==
    /\ pc' = [pc EXCEPT ![p] = "upd_read"]
    /\ loc' = [loc EXCEPT ![p] = l]
    /\ resp' = [resp EXCEPT ![p] = NoResp]

\* update_session_metadata called directly on the store
UpdateBegin(p, sid, key, value) ==
    /\ Idle(p)
    /\ CallUpdate(p, [op |-> "update", sid |-> sid, key |-> key, val |-> value,
                      phase |-> 1, cur |-> EmptyDoc, snap |-> EmptyDoc, info |-> NoResp])
    /\ UNCHANGED <<envvars, dbvars, tally>>

\* variant: the question is sent as stored
QuestionView_WithKey(quiz, idx) ==
    [question |-> quiz.questions[idx + 1].question,
     options |-> quiz.questions[idx + 1].options,
     correct_index |-> quiz.questions[idx + 1].correct_index,
     index |-> idx, total |-> Len(quiz.questions)]

\* what the caller of update_session_metadata does with its return value:
\* start_quiz lines 520-530, submit_quiz_answer 586-591, next_question 617-637
QuestionView(quiz, idx) ==
    [question |-> quiz.questions[idx + 1].question,
     options |-> quiz.questions[idx + 1].options,
     index |-> idx, total |-> Len(quiz.questions)]

\* start_quiz lines 524-530: the body of the 200 response
StartResponse(sid, quiz) ==
    [op |-> "start_quiz", status |-> 200, session_id |-> sid,
     body |-> QuestionView(quiz, 0)]

\* next_question lines 618-637: the completion summary, or the next question
NextResponse(sid, quiz) ==
    IF quiz.current_index >= Len(quiz.questions)
    THEN [op |-> "next_question", status |-> 200, session_id |-> sid,
          completed |-> TRUE, score |-> quiz.score, total |-> Len(quiz.questions)]
    ELSE [op |-> "next_question", status |-> 200, session_id |-> sid,
          completed |-> FALSE, body |-> QuestionView(quiz, quiz.current_index)]

AfterUpdate(p, ok) ==
    LET l == loc[p]
    IN  CASE l.op = "update" ->
                Finish(p, [op |-> "update_session_metadata", status |-> "ok",
                           session_id |-> l.sid, key |-> l.key, value |-> l.val,
                           updated |-> ok])
          [] l.op = "start" ->
                IF ok
                THEN Finish(p, StartResponse(l.sid, l.val))
                ELSE Finish(p, [op |-> "start_quiz", status |-> 500, session_id |-> l.sid,
                                error |-> "Failed to save quiz state"])
          [] l.op = "submit" -> Finish(p, l.info)
          [] l.op = "next" /\ l.phase = 1 ->
                IF l.val.current_index >= Len(l.val.questions)
                THEN /\ pc' = [pc EXCEPT ![p] = "upd_read"]
                     /\ loc' = [loc EXCEPT ![p] =
                            [l EXCEPT !.val = [l.val EXCEPT !.completed = TRUE],
                                      !.phase = 2]]
                     /\ UNCHANGED resp
                ELSE Finish(p, NextResponse(l.sid, l.val))
          [] l.op = "next" /\ l.phase = 2 -> Finish(p, NextResponse(l.sid, l.val))

\* variant: a missing row is read as an empty document
UpdRead_NoRowCheck(p) ==
    /\ pc[p] = "upd_read"
    /\ pc' = [pc EXCEPT ![p] = "upd_write"]
    /\ loc' = [loc EXCEPT ![p].cur = get_session_metadata(loc[p].sid)]
    /\ UNCHANGED resp
    /\ UNCHANGED <<envvars, dbvars, tally>>

\* update_session_metadata, "1. Get current metadata": the SELECT
UpdRead(p) ==
    /\ pc[p] = "upd_read"
    /\ IF ~session_exists(loc[p].sid)
       THEN AfterUpdate(p, FALSE)
       ELSE /\ pc' = [pc EXCEPT ![p] = "upd_write"]
            /\ loc' = [loc EXCEPT ![p].cur = LoadMeta(sessions[loc[p].sid].metadata)]
            /\ UNCHANGED resp
    /\ UNCHANGED <<envvars, dbvars, tally>>

\* variant: the document is rebuilt from the one key
WrittenDocument_Fresh(cur, key, value, stored) == DictSet(EmptyDoc, key, value)

\* variant: the UPDATE is given up when the row changed since the SELECT
WrittenDocument_KeepsNewer(cur, key, value, stored) ==
    IF stored # cur THEN stored ELSE DictSet(cur, key, value)

\* current_metadata[key] = value, on the document the SELECT returned
\* (stored: the document in the row when the UPDATE runs, which the code
\* does not look at)
WrittenDocument(cur, key, value, stored) == DictSet(cur, key, value)

\* variant: a quiz write also appends a row to the message log
UpdWrite_LogsQuiz(p) ==
    /\ pc[p] = "upd_write"
    /\ LET l == loc[p]
       IN  /\ sessions' = [sessions EXCEPT ![l.sid] =
                    IF @.present
                    THEN [@ EXCEPT !.metadata = JsonDumps(WrittenDocument(
                                        l.cur, l.key, l.val,
                                        LoadMeta(sessions[l.sid].metadata))),
                                   !.updated_at = SqlNow]
                    ELSE @]
           /\ tally' = IF l.op = "start" /\ sessions[l.sid].present
                       THEN [tally EXCEPT ![l.sid] = ZeroTally]
                       ELSE tally
           /\ messages' = IF l.op = "update" THEN messages
                          ELSE Append(messages,
                                   [id |-> next_msg_id, session_id |-> l.sid,
                                    role |-> "quiz", content |-> l.op,
                                    provider |-> NoneVal, created_at |-> SqlNow])
           /\ next_msg_id' = IF l.op = "update" THEN next_msg_id ELSE next_msg_id + 1
    /\ AfterUpdate(p, TRUE)
    /\ UNCHANGED <<envvars, used>>

\* update_session_metadata, the UPDATE (no row is touched when the session is
\* gone by now), and the return to the caller
UpdWrite(p) ==
    /\ pc[p] = "upd_write"
    /\ LET l == loc[p]
       IN  /\ sessions' = [sessions EXCEPT ![l.sid] =
                    IF @.present
                    THEN [@ EXCEPT !.metadata = JsonDumps(WrittenDocument(
                                        l.cur, l.key, l.val,
                                        LoadMeta(sessions[l.sid].metadata))),
                                   !.updated_at = SqlNow]
                    ELSE @]
           /\ tally' = IF l.op = "start" /\ sessions[l.sid].present
                       THEN [tally EXCEPT ![l.sid] = ZeroTally]
                       ELSE tally
    /\ AfterUpdate(p, TRUE)
    /\ UNCHANGED <<envvars, used, messages, next_msg_id>>

\* ----------------------------------------------------------- quiz engine
\* what provider.generate_response and the parsing of its text can yield:
\* a failure (exception, empty text, unparsable text), or a JSON list
Question(c) ==
    [question |-> "q", options |-> <<"a", "b", "c", "d">>, correct_index |-> c,
     explanation |-> "e", subject |-> "Biology"]

QuestionLists ==
    { [i \in 1 .. n |-> Question((c + i - 1) % (MaxAnswer + 1))] :
        n \in 0 .. MaxQuestions, c \in AnswerIndexes }

LLMOutputs == { [ok |-> FALSE] } \cup { [ok |-> TRUE, questions |-> qs] : qs \in QuestionLists }

\* variant: the index starts at one
InitQuizState_OneBased(questions) ==
    [questions |-> questions, current_index |-> 1, score |-> 0,
     completed |-> FALSE, history |-> <<>>]

\* start_quiz "Init Quiz State"
InitQuizState(questions) ==
    [questions |-> questions, current_index |-> 0, score |-> 0,
     completed |-> FALSE, history |-> <<>>]

\* is `not quiz` for metadata.get("quiz")
NoQuiz(doc) == ~HasKey(doc, "quiz")

\* POST /quiz/start up to session_exists
StartBegin(p, sid) ==
    /\ Idle(p)
    /\ IF sid = NoSessionId
       THEN Finish(p, [op |-> "start_quiz", status |-> 400, session_id |-> sid,
                       error |-> "Session ID required"])
       ELSE IF ~session_exists(sid)
       THEN Finish(p, [op |-> "start_quiz", status |-> 404, session_id |-> sid,
                       error |-> "Session not found"])
       ELSE /\ pc' = [pc EXCEPT ![p] = "start_subject"]
            /\ loc' = [loc EXCEPT ![p] = [op |-> "start", sid |-> sid]]
            /\ resp' = [resp EXCEPT ![p] = NoResp]
    /\ UNCHANGED <<envvars, dbvars, tally>>

\* get_session_subject, the generation of the questions, and the call of
\* update_session_metadata(session_id, "quiz", quiz_state)
StartSubject(p, out) ==
    /\ pc[p] = "start_subject"
    /\ LET sid == loc[p].sid
           subject == get_session_subject(sid)
       IN  IF ~Truthy(subject)
           THEN Finish(p, [op |-> "start_quiz", status |-> 400, session_id |-> sid,
                           error |-> "Session has no selected subject. Please start a new chat."])
           ELSE IF ~out.ok \/ Len(out.questions) = 0
           THEN Finish(p, [op |-> "start_quiz", status |-> 500, session_id |-> sid,
                           error |-> "Failed to generate quiz. Please try again."])
           ELSE CallUpdate(p, [op |-> "start", sid |-> sid, key |-> "quiz",
                               val |-> InitQuizState(Take(out.questions, num_questions)),
                               phase |-> 1, cur |-> EmptyDoc, snap |-> EmptyDoc, info |-> NoResp])
    /\ UNCHANGED <<envvars, dbvars, tally>>

\* variant: the answer is taken as one-based
IsCorrect_OffByOne(answer_index, correct_index) == answer_index = correct_index + 1

\* int(answer_index) == int(correct_index), on JSON integers
IsCorrect(answer_index, correct_index) == answer_index = correct_index

\* variant: a question already in the history is not answered again
Answered_Deduplicated(quiz, answer_index) ==
    LET idx == quiz.current_index
        is_correct == answer_index = quiz.questions[idx + 1].correct_index
    IN  IF \E i \in 1 .. Len(quiz.history) : quiz.history[i].question_index = idx
        THEN [quiz EXCEPT !.history = <<[question_index |-> idx, selected |-> answer_index,
                                         correct |-> is_correct]>>]
        ELSE [quiz EXCEPT
                !.history = Append(@, [question_index |-> idx, selected |-> answer_index,
                                       correct |-> is_correct]),
                !.score = IF is_correct THEN @ + 1 ELSE @]

\* submit_quiz_answer "Update State (Score & History)"
Answered(quiz, answer_index) ==
    LET idx == quiz.current_index
        is_correct == IsCorrect(answer_index, quiz.questions[idx + 1].correct_index)
    IN  [quiz EXCEPT
            !.history = Append(@, [question_index |-> idx, selected |-> answer_index,
                                   correct |-> is_correct]),
            !.score = IF is_correct THEN @ + 1 ELSE @]

\* the answer counts for the tally when the stored quiz has a current
\* question and the selected index is its correct_index
CountsAsCorrect(doc, answer) ==
    /\ answer.given
    /\ ~NoQuiz(doc)
    /\ doc["quiz"].current_index < Len(doc["quiz"].questions)
    /\ answer.index = doc["quiz"].questions[doc["quiz"].current_index + 1].correct_index

\* variant: a stored quiz always takes the answer, past its end for its
\* last question
SubmitDecision_Lenient(metadata, sid, answer) ==
    LET quiz == metadata["quiz"]
        n == Len(quiz.questions)
        at == IF quiz.current_index < n THEN quiz.current_index + 1 ELSE n
        current_q == quiz.questions[at]
        is_correct == IsCorrect(answer.index, current_q.correct_index)
        after == [quiz EXCEPT
                    !.history = Append(@, [question_index |-> quiz.current_index,
                                           selected |-> answer.index,
                                           correct |-> is_correct]),
                    !.score = IF is_correct THEN @ + 1 ELSE @]
    IN  IF sid = NoSessionId \/ ~answer.given \/ NoQuiz(metadata)
        THEN [accepted |-> FALSE,
              response |-> [op |-> "submit_quiz_answer", status |-> 400,
                            session_id |-> sid, error |-> "No active quiz found"]]
        ELSE [accepted |-> TRUE, quiz |-> after,
              response |-> [op |-> "submit_quiz_answer", status |-> 200,
                            session_id |-> sid, is_correct |-> is_correct,
                            correct_index |-> current_q.correct_index,
                            explanation |-> current_q.explanation,
                            score |-> after.score]]

\* submit_quiz_answer lines 548-591 on the metadata it read: the rejection,
\* or the quiz to save and the response to send once it is saved
SubmitDecision(metadata, sid, answer) ==
    LET quiz == metadata["quiz"]
        current_q == quiz.questions[quiz.current_index + 1]
        after == Answered(quiz, answer.index)
        Reject(msg) == [accepted |-> FALSE,
                        response |-> [op |-> "submit_quiz_answer", status |-> 400,
                                      session_id |-> sid, error |-> msg]]
    IN  IF sid = NoSessionId \/ ~answer.given
        THEN Reject("Missing parameters")
        ELSE IF NoQuiz(metadata) \/ quiz.completed
        THEN Reject("No active quiz found")
        ELSE IF quiz.current_index >= Len(quiz.questions)
        THEN Reject("Quiz already finished")
        ELSE [accepted |-> TRUE, quiz |-> after,
              response |-> [op |-> "submit_quiz_answer", status |-> 200,
                            session_id |-> sid,
                            is_correct |-> after.history[Len(after.history)].correct,
                            correct_index |-> current_q.correct_index,
                            explanation |-> current_q.explanation,
                            score |-> after.score]]

\* POST /quiz/submit up to the call of update_session_metadata
SubmitBegin(p, sid, answer) ==
    /\ Idle(p)
    /\ LET metadata == get_session_metadata(sid)
           decision == SubmitDecision(metadata, sid, answer)
       IN  /\ IF NoQuiz(metadata) THEN TRUE
              ELSE Len(metadata["quiz"].history) < MaxHistory
           /\ IF decision.accepted
              THEN CallUpdate(p, [op |-> "submit", sid |-> sid, key |-> "quiz",
                                  val |-> decision.quiz, phase |-> 1, cur |-> EmptyDoc,
                                  snap |-> metadata, info |-> decision.response])
              ELSE Finish(p, decision.response)
           /\ tally' = IF sid \in SessionIds /\ CountsAsCorrect(metadata, answer)
                       THEN [tally EXCEPT ![sid].correct =
                                IF @ <= MaxHistory THEN @ + 1 ELSE @]
                       ELSE tally
    /\ UNCHANGED <<envvars, dbvars>>

\* variant: the index moves by two
Advanced_SkipsOne(quiz) == [quiz EXCEPT !.current_index = @ + 2]

\* variant: the advance also clears the score
Advanced_ResetsScore(quiz) == [quiz EXCEPT !.current_index = @ + 1, !.score = 0]

\* next_question "Advance index"
Advanced(quiz) == [quiz EXCEPT !.current_index = @ + 1]

\* POST /quiz/next up to the first call of update_session_metadata
NextBegin(p, sid) ==
    /\ Idle(p)
    /\ LET metadata == get_session_metadata(sid)
           quiz == metadata["quiz"]
       IN  /\ IF NoQuiz(metadata) THEN TRUE ELSE quiz.current_index <= Len(quiz.questions)
           /\ IF sid = NoSessionId
              THEN /\ Finish(p, [op |-> "next_question", status |-> 400,
                                 session_id |-> sid, error |-> "Session ID required"])
                   /\ UNCHANGED tally
              ELSE IF NoQuiz(metadata)
              THEN /\ Finish(p, [op |-> "next_question", status |-> 400,
                                 session_id |-> sid, error |-> "No active quiz"])
                   /\ UNCHANGED tally
              ELSE /\ CallUpdate(p,
                        [op |-> "next", sid |-> sid, key |-> "quiz",
                         val |-> Advanced(quiz),
                         phase |-> 1, cur |-> EmptyDoc, snap |-> metadata,
                         info |-> NoResp])
                   /\ tally' = [tally EXCEPT ![sid].advances =
                                    IF @ <= MaxQuestions THEN @ + 1 ELSE @]
    /\ UNCHANGED <<envvars, dbvars>>

\* ------------------------------------------------------- specifications
\* the subjects the sessions of the message log are created with
LogSubjects == SubjectInputs \cup {"Physics"}

LogBegin(p) ==
    \/ \E subject \in LogSubjects : CreateSession(p, subject)
    \/ \E sid \in SessionIds, m \in MessageInputs : AddMessage(p, sid, m)
    \/ \E sid \in SessionIds, limit \in 1 .. MaxLimit : GetSessionMessages(p, sid, limit)
    \/ \E sid \in SessionIds : DeleteBegin(p, sid)

LogStep(p) == DeleteRows(p)

\* the session directory and the message log, one call at a time
NextLog ==
    \/ Tick
    \/ LogBegin(SeqProc)
    \/ LogStep(SeqProc)

SpecLog == Init /\ [][NextLog]_vars

AnswerInputs == { [given |-> FALSE, index |-> 0] } \cup
                { [given |-> TRUE, index |-> i] : i \in AnswerIndexes }

StoreKeyValues ==
    { <<"note", v>> : v \in NoteValues } \cup { <<"subject", "">> }

QuizBegin(p) ==
    \/ \E subject \in SubjectInputs : CreateSession(p, subject)
    \/ \E sid \in SessionIds : DeleteBegin(p, sid)
    \/ \E sid \in SessionIds : GetMetadata(p, sid)
    \/ \E sid \in SessionIds, kv \in StoreKeyValues : UpdateBegin(p, sid, kv[1], kv[2])
    \/ \E sid \in RequestIds : StartBegin(p, sid)
    \/ \E sid \in RequestIds, answer \in AnswerInputs : SubmitBegin(p, sid, answer)
    \/ \E sid \in RequestIds : NextBegin(p, sid)

QuizStep(p) ==
    \/ DeleteRows(p)
    \/ \E out \in LLMOutputs : StartSubject(p, out)
    \/ UpdRead(p)
    \/ UpdWrite(p)

\* sessions, metadata and the quiz, one request at a time
NextQuiz == QuizBegin(SeqProc) \/ QuizStep(SeqProc)

\* the metadata and quiz actions read neither the local clock nor the
\* backend flag: update_session_metadata and get_session_metadata take the
\* same steps on both backends
InitQuiz == Init /\ tz = 0 /\ ~is_postgres

SpecQuiz == InitQuiz /\ [][NextQuiz]_vars

\* ---- interleaved runs
\* calls of update_session_metadata by two clients on the sessions' note and
\* subject keys, interleaved at every database access
RaceKeyValues == { <<"note", v>> : v \in NoteValues } \cup { <<"subject", "">> }

RaceBegin(p) ==
    \/ CreateSession(p, "Biology")
    \/ \E sid \in SessionIds, kv \in RaceKeyValues : UpdateBegin(p, sid, kv[1], kv[2])

RaceStep(p) == UpdRead(p) \/ UpdWrite(p)

NextRace == \E p \in Procs : RaceBegin(p) \/ RaceStep(p)

SpecRace == InitQuiz /\ [][NextRace]_vars

\* quiz requests on one session: those of one client, and one request of a
\* second client that overlaps them, interleaved at every database access.
\* The quizzes have one question and are answered while the stored history
\* is empty.
RaceLLMOutputs == { out \in LLMOutputs : out.ok /\ Len(out.questions) = 1 }

HistoryEmpty(sid) ==
    LET metadata == get_session_metadata(sid)
    IN  IF NoQuiz(metadata) THEN TRUE ELSE Len(metadata["quiz"].history) = 0

FirstRequest(p) == p = SeqProc \/ resp[p] = NoResp

QuizRaceBegin(p) ==
    \/ FirstRequest(p) /\ used = {} /\ CreateSession(p, "Biology")
    \/ \E sid \in 1 .. MaxQuizSessions : FirstRequest(p) /\ StartBegin(p, sid)
    \/ \E sid \in 1 .. MaxQuizSessions, i \in AnswerIndexes :
          /\ FirstRequest(p)
          /\ HistoryEmpty(sid)
          /\ SubmitBegin(p, sid, [given |-> TRUE, index |-> i])
    \/ \E sid \in 1 .. MaxQuizSessions : FirstRequest(p) /\ NextBegin(p, sid)

QuizRaceStep(p) ==
    \/ \E out \in RaceLLMOutputs : StartSubject(p, out)
    \/ UpdRead(p)
    \/ UpdWrite(p)

NextQuizRace == \E p \in Procs : QuizRaceBegin(p) \/ QuizRaceStep(p)

SpecQuizRace == InitQuiz /\ [][NextQuizRace]_vars

\* ---- the session directory's timestamps
\* sessions, appends and metadata updates of one client, with time passing
StampBegin(p) ==
    \/ CreateSession(p, "Biology")
    \/ \E sid \in SessionIds :
          AddMessage(p, sid, [role |-> "user", content |-> "Hello", provider |-> NoneVal])
    \/ \E sid \in SessionIds : UpdateBegin(p, sid, "note", "n1")
    \/ \E limit \in 1 .. MaxLimit : ListSessions(p, limit)

StampStep(p) == UpdRead(p) \/ UpdWrite(p)

NextStamp ==
    \/ Tick
    \/ StampBegin(SeqProc)
    \/ StampStep(SeqProc)

SpecStamp == Init /\ [][NextStamp]_vars

\* ---- connections
\* the operations whose connection handling is followed
ConnOps == {"session_exists", "create_session"}

\* `with self._get_sqlite_conn() as conn:` / `with psycopg2.connect(...) as
\* conn:` up to the body: the connect call raises, or a connection is open
ConnEnter(p, op, connected) ==
    /\ Idle(p)
    /\ conns.held + conns.dropped < MaxConns
    /\ IF connected
       THEN /\ conns' = [conns EXCEPT !.held = @ + 1]
            /\ pc' = [pc EXCEPT ![p] = "in_with"]
            /\ loc' = [loc EXCEPT ![p] = [op |-> op]]
            /\ resp' = [resp EXCEPT ![p] = NoResp]
       ELSE /\ Finish(p, [op |-> op, status |-> "error"])
            /\ UNCHANGED conns
    /\ UNCHANGED <<clock, tz, is_postgres, singleton, schema, dbvars, tally>>

\* the body (it returns or raises) and the exit of the with statement.
\* _get_sqlite_conn closes the connection in its finally clause.  psycopg2's
\* connection context manager ends the transaction and leaves the
\* connection open; the operation never calls close(), so the connection is
\* closed when the interpreter finalizes the object: at once as the
\* operation ends (finalized), or later.
ConnExit(p, raised, finalized) ==
    /\ pc[p] = "in_with"
    /\ is_postgres \/ finalized
    /\ conns' = IF is_postgres /\ ~finalized
                THEN [held |-> conns.held - 1, dropped |-> conns.dropped + 1]
                ELSE [conns EXCEPT !.held = @ - 1]
    /\ Finish(p, [op |-> loc[p].op, status |-> IF raised THEN "error" ELSE "ok"])
    /\ UNCHANGED <<clock, tz, is_postgres, singleton, schema, dbvars, tally>>

\* the interpreter finalizes a dropped connection object
Collect ==
    /\ conns.dropped > 0
    /\ conns' = [conns EXCEPT !.dropped = @ - 1]
    /\ UNCHANGED <<clock, tz, is_postgres, singleton, schema, dbvars, pc, loc, resp, tally>>

NextConn ==
    \/ Collect
    \/ \E p \in Procs, op \in ConnOps, connected \in BOOLEAN : ConnEnter(p, op, connected)
    \/ \E p \in Procs, raised \in BOOLEAN, finalized \in BOOLEAN :
          ConnExit(p, raised, finalized)

SpecConn == Init /\ [][NextConn]_vars

\* ---- chat and quiz on the same sessions
\* the requests of one client: sessions, messages, titles and the quiz
ChatBegin(p) ==
    \/ \E subject \in SubjectInputs : CreateSession(p, subject)
    \/ \E sid \in SessionIds :
          AddMessage(p, sid, [role |-> "user", content |-> "Hello", provider |-> NoneVal])
    \/ \E sid \in SessionIds : UpdateTitle(p, sid, <<"H", "i">>)
    \/ \E sid \in 1 .. MaxQuizSessions : StartBegin(p, sid)
    \/ \E sid \in 1 .. MaxQuizSessions, i \in AnswerIndexes :
          SubmitBegin(p, sid, [given |-> TRUE, index |-> i])
    \/ \E sid \in 1 .. MaxQuizSessions : NextBegin(p, sid)

ChatStep(p) ==
    \/ \E out \in RaceLLMOutputs : StartSubject(p, out)
    \/ UpdRead(p)
    \/ UpdWrite(p)

NextChat == ChatBegin(SeqProc) \/ ChatStep(SeqProc)

SpecChat == Init /\ [][NextChat]_vars

\* ---- titles
\* update_title next to the other writers of a session's row and messages
TitleBegin(p) ==
    \/ CreateSession(p, "Biology")
    \/ \E sid \in SessionIds :
          AddMessage(p, sid, [role |-> "user", content |-> "Hello", provider |-> NoneVal])
    \/ \E sid \in SessionIds, title \in TitleInputs : UpdateTitle(p, sid, title)
    \/ \E sid \in SessionIds : UpdateBegin(p, sid, "note", "n1")

TitleStep(p) == UpdRead(p) \/ UpdWrite(p)

NextTitle == Tick \/ TitleBegin(SeqProc) \/ TitleStep(SeqProc)

SpecTitle == Init /\ [][NextTitle]_vars

\* ---- add_message, statement by statement
\* the requests that are inside add_message's transaction
InAdd(p) == pc[p] \in {"add_update", "add_commit"}

\* a table with one more row, kept in rowid order
InsertById(msgs, row) ==
    SelectSeq(msgs, LAMBDA m : m.id < row.id) \o <<row>> \o
    SelectSeq(msgs, LAMBDA m : m.id > row.id)

\* the transaction so far: the row INSERT wrote and the value UPDATE wrote,
\* both not yet committed
AddTx(sid, row, stamp) == [op |-> "add", sid |-> sid, row |-> row, stamp |-> stamp]

\* variant: the connection commits each statement on its own
AddInsert_Autocommit(p, sid, m) ==
    /\ Idle(p)
    /\ Len(messages) + Cardinality({ q \in Procs : InAdd(q) }) < MaxMessages
    /\ next_msg_id <= MaxMessages + 1
    /\ is_postgres \/ \A q \in Procs : ~InAdd(q)
    /\ IF AddMessageOutcome(is_postgres, sid) = "IntegrityError"
       THEN /\ Finish(p, [op |-> "add_message", status |-> "IntegrityError",
                          session_id |-> sid])
            /\ UNCHANGED <<messages, next_msg_id>>
       ELSE LET row == [id |-> next_msg_id, session_id |-> sid, role |-> m.role,
                        content |-> m.content, provider |-> m.provider,
                        created_at |-> (IF is_postgres THEN SqlNow ELSE PyNow)]
            IN  /\ next_msg_id' = next_msg_id + 1
                /\ messages' = InsertById(messages, row)
                /\ pc' = [pc EXCEPT ![p] = "add_update"]
                /\ loc' = [loc EXCEPT ![p] = AddTx(sid, row, SqlNow)]
                /\ resp' = [resp EXCEPT ![p] = NoResp]
    /\ UNCHANGED <<envvars, sessions, used, tally>>

\* add_message, the INSERT: it opens the transaction (SQLite lets one
\* connection write at a time) and takes the next id; PostgreSQL refuses a
\* session_id without a sessions row
AddInsert(p, sid, m) ==
    /\ Idle(p)
    /\ Len(messages) + Cardinality({ q \in Procs : InAdd(q) }) < MaxMessages
    /\ next_msg_id <= MaxMessages + 1
    /\ is_postgres \/ \A q \in Procs : ~InAdd(q)
    /\ IF AddMessageOutcome(is_postgres, sid) = "IntegrityError"
       THEN /\ Finish(p, [op |-> "add_message", status |-> "IntegrityError",
                          session_id |-> sid])
            /\ UNCHANGED next_msg_id
       ELSE LET row == [id |-> next_msg_id, session_id |-> sid, role |-> m.role,
                        content |-> m.content, provider |-> m.provider,
                        created_at |-> (IF is_postgres THEN SqlNow ELSE PyNow)]
            IN  /\ next_msg_id' = next_msg_id + 1
                /\ pc' = [pc EXCEPT ![p] = "add_update"]
                /\ loc' = [loc EXCEPT ![p] = AddTx(sid, row, SqlNow)]
                /\ resp' = [resp EXCEPT ![p] = NoResp]
    /\ UNCHANGED <<envvars, sessions, used, messages, tally>>

\* add_message, the UPDATE of updated_at (NOW() is the time the PostgreSQL
\* transaction began; SQLite is given datetime.now()).  When the statement
\* raises, the with block is left without a commit and the transaction is
\* rolled back: SQLite gives the id back, a PostgreSQL sequence does not.
AddUpdate(p, raised) ==
    /\ pc[p] = "add_update"
    /\ IF raised
       THEN /\ Finish(p, [op |-> "add_message", status |-> "error",
                          session_id |-> loc[p].sid])
            /\ next_msg_id' = IF is_postgres THEN next_msg_id ELSE next_msg_id - 1
       ELSE /\ pc' = [pc EXCEPT ![p] = "add_commit"]
            /\ loc' = [loc EXCEPT ![p].stamp = IF is_postgres THEN @ ELSE PyNow]
            /\ UNCHANGED <<resp, next_msg_id>>
    /\ UNCHANGED <<envvars, sessions, used, messages, tally>>

\* add_message, the end of the with block: conn.commit() makes the row and
\* the new updated_at visible together
AddCommit(p) ==
    /\ pc[p] = "add_commit"
    /\ LET l == loc[p]
       IN  /\ messages' = InsertById(messages, l.row)
           /\ sessions' = [s \in SessionIds |->
                    IF s = l.sid /\ sessions[s].present
                    THEN [sessions[s] EXCEPT !.updated_at = l.stamp]
                    ELSE sessions[s]]
           /\ Finish(p, [op |-> "add_message", status |-> "ok", session_id |-> l.sid,
                         msg_id |-> l.row.id])
    /\ UNCHANGED <<envvars, used, next_msg_id, tally>>

AppendBegin(p) ==
    \/ CreateSession(p, "Biology")
    \/ \E sid \in SessionIds :
          AddInsert(p, sid, [role |-> "user", content |-> "Hello", provider |-> NoneVal])

AppendStep(p) ==
    \/ \E raised \in BOOLEAN : AddUpdate(p, raised)
    \/ AddCommit(p)

NextAppend == Tick \/ \E p \in Procs : AppendBegin(p) \/ AppendStep(p)

SpecAppend == Init /\ [][NextAppend]_vars

\* ---- concurrent deletes
\* two clients create sessions, append and delete
DeleteRaceBegin(p) ==
    \/ \E subject \in SubjectInputs : CreateSession(p, subject)
    \/ \E sid \in SessionIds :
          AddMessage(p, sid, [role |-> "user", content |-> "Hello", provider |-> NoneVal])
    \/ \E sid \in SessionIds : DeleteBegin(p, sid)

DeleteRaceStep(p) == DeleteRows(p)

NextDeleteRace == \E p \in Procs : DeleteRaceBegin(p) \/ DeleteRaceStep(p)

SpecDeleteRace == Init /\ [][NextDeleteRace]_vars

\* ---- start against delete
\* start requests and deletes of two clients, interleaved at every database
\* access
StartRaceBegin(p) ==
    \/ CreateSession(p, "Biology")
    \/ \E sid \in SessionIds : StartBegin(p, sid)
    \/ \E sid \in SessionIds : DeleteBegin(p, sid)
    \/ \E sid \in SessionIds : GetMetadata(p, sid)

StartRaceStep(p) ==
    \/ \E out \in RaceLLMOutputs : StartSubject(p, out)
    \/ UpdRead(p)
    \/ UpdWrite(p)
    \/ DeleteRows(p)

NextStartRace == \E p \in Procs : StartRaceBegin(p) \/ StartRaceStep(p)

SpecStartRace == Init /\ [][NextStartRace]_vars

\* ---- schema setup
\* ChatHistoryDB(): _init_sqlite / _init_postgres run the CREATE and ALTER
\* statements.  SQLite keeps the statements that ran before a failing one;
\* the PostgreSQL transaction is rolled back as a whole.
Construct(p) ==
    /\ Idle(p)
    /\ LET r == CreateTables(schema, is_postgres)
       IN  /\ schema' = IF r.ok \/ ~is_postgres THEN r.schema ELSE schema
           /\ Finish(p, [op |-> "construct", status |-> IF r.ok THEN "ok" ELSE "error"])
    /\ UNCHANGED <<clock, tz, is_postgres, conns, singleton, dbvars, tally>>

\* the schemas of databases that earlier versions of the tables left: no
\* tables, sessions without the title or metadata column, messages without
\* the provider column
PriorSchemas ==
    { [sessions |-> s, messages |-> m, index |-> i, log |-> 0] :
        s \in { {}, SessionsColumns \ {"title", "metadata"},
                SessionsColumns \ {"metadata"}, SessionsColumns },
        m \in { {}, MessagesColumns \ {"provider"}, MessagesColumns },
        i \in BOOLEAN }

\* a row an earlier version stored (columns added later read as NULL)
LegacyRow ==
    [present |-> TRUE, title |-> NullTitle, created_at |-> 0, updated_at |-> 0,
     metadata |-> NullMeta]

\* a database an earlier process left, before this process constructs its
\* store
InitSchema ==
    /\ clock = 0
    /\ is_postgres \in BOOLEAN
    /\ tz = 0
    /\ schema \in { s \in PriorSchemas :
                      /\ s.index => s.messages # {}
                      /\ s.messages # {} => s.sessions # {} }
    /\ \E legacy \in BOOLEAN :
          /\ legacy => schema.sessions # {}
          /\ sessions = [s \in SessionIds |-> IF legacy /\ s = 1 THEN LegacyRow ELSE NoRow]
          /\ used = IF legacy THEN {1} ELSE {}
    /\ messages = <<>>
    /\ next_msg_id = 1
    /\ pc = [p \in Procs |-> "idle"]
    /\ loc = [p \in Procs |-> NoLoc]
    /\ resp = [p \in Procs |-> NoResp]
    /\ conns = NoConns
    /\ singleton = NoSingleton
    /\ tally = [s \in SessionIds |-> ZeroTally]

\* the store's operations run on a constructed store
SchemaBegin(p) ==
    \/ Construct(p)
    \/ resp[p] # NoResp /\ CreateSession(p, "Biology")
    \/ \E sid \in SessionIds :
          /\ resp[p] # NoResp
          /\ AddMessage(p, sid, [role |-> "user", content |-> "Hello", provider |-> NoneVal])

NextSchema == SchemaBegin(SeqProc)

SpecSchema == InitSchema /\ [][NextSchema]_vars

\* ---- the metadata column
\* the sessions table is written by something other than this class: the
\* SQLite column is declared TEXT and takes any text (a JSONB column
\* rejects it)
ForeignWrite(sid) ==
    /\ \A p \in Procs : Idle(p)
    /\ ~is_postgres
    /\ session_exists(sid)
    /\ sessions[sid].metadata # NotJson
    /\ sessions' = [sessions EXCEPT ![sid].metadata = NotJson]
    /\ UNCHANGED <<envvars, used, messages, next_msg_id, pc, loc, resp, tally>>

MetaBegin(p) ==
    \/ \E subject \in SubjectInputs : CreateSession(p, subject)
    \/ \E sid \in SessionIds : GetMetadata(p, sid)
    \/ \E sid \in SessionIds, value \in NoteValues : UpdateBegin(p, sid, "note", value)

MetaStep(p) == UpdRead(p) \/ UpdWrite(p)

NextMeta ==
    \/ \E sid \in SessionIds : ForeignWrite(sid)
    \/ MetaBegin(SeqProc)
    \/ MetaStep(SeqProc)

SpecMeta == Init /\ [][NextMeta]_vars

\* ---- the shared store instance
\* get_db: `if _db_instance is None`
GetDbCheck(p) ==
    /\ Idle(p)
    /\ IF singleton.instance = 0
       THEN /\ pc' = [pc EXCEPT ![p] = "construct"]
            /\ loc' = [loc EXCEPT ![p] = [op |-> "get_db"]]
            /\ resp' = [resp EXCEPT ![p] = NoResp]
       ELSE Finish(p, [op |-> "get_db", instance |-> singleton.instance,
                       epoch |-> singleton.epoch])
    /\ UNCHANGED <<clock, tz, is_postgres, conns, singleton, schema, dbvars, tally>>

\* get_db: `_db_instance = ChatHistoryDB()`
GetDbConstruct(p) ==
    /\ pc[p] = "construct"
    /\ singleton' = [singleton EXCEPT !.instance = singleton.made + 1,
                                      !.made = @ + 1, !.built = @ + 1]
    /\ pc' = [pc EXCEPT ![p] = "return"]
    /\ UNCHANGED <<clock, tz, is_postgres, conns, schema, dbvars, loc, resp, tally>>

\* get_db: `return _db_instance`
GetDbReturn(p) ==
    /\ pc[p] = "return"
    /\ Finish(p, [op |-> "get_db", instance |-> singleton.instance,
                  epoch |-> singleton.epoch])
    /\ UNCHANGED <<clock, tz, is_postgres, conns, singleton, schema, dbvars, tally>>

\* the test fixture's `chat_history._db_instance = None`, between calls
ResetDb ==
    /\ \A p \in Procs : Idle(p)
    /\ singleton.epoch < MaxResets
    /\ singleton' = [singleton EXCEPT !.instance = 0, !.built = 0, !.epoch = @ + 1]
    /\ UNCHANGED <<clock, tz, is_postgres, conns, schema, dbvars, pc, loc, resp, tally>>

NextGetDb ==
    \/ ResetDb
    \/ \E p \in Procs : GetDbCheck(p) \/ GetDbConstruct(p) \/ GetDbReturn(p)

SpecGetDb == Init /\ [][NextGetDb]_vars

\* ------------------------------------------------------------ claims
\* the response of the one client of the sequential specifications
Last == resp[SeqProc]

\* rows of a session as get_session_messages projects them, in the order
\* they were appended
Submitted(sid) ==
    [i \in 1 .. Len(SessionRows(sid)) |-> Project(SessionRows(sid)[i])]

\* C1: a read of an existing session with limit >= its number of messages
\* returns exactly the session's messages, in the order they were appended.
C1_ReadsInSubmissionOrder ==
    (/\ Last.op = "get_session_messages"
     /\ session_exists(Last.session_id)
     /\ Last.limit >= Len(SessionRows(Last.session_id)))
    => Last.messages = Submitted(Last.session_id)

\* the stored quiz of a session (only used where the session has one)
StoredQuiz(sid) == get_session_metadata(sid)["quiz"]

HasQuiz(sid) == ~NoQuiz(get_session_metadata(sid))

\* C2: after start with N questions the k-th advance reports completed =
\* FALSE for k < N and TRUE for k = N, and no quiz is stored as completed
\* before its N-th advance.
C2_CompletedOnNthAdvance ==
    /\ (Last.op = "next_question" /\ Last.status = 200) =>
          LET k == tally[Last.session_id].advances
              N == Len(StoredQuiz(Last.session_id).questions)
          IN  /\ k < N => ~Last.completed
              /\ k = N => Last.completed
    /\ \A sid \in SessionIds :
          (HasQuiz(sid) /\ StoredQuiz(sid).completed)
              => tally[sid].advances >= Len(StoredQuiz(sid).questions)

C2_Witness ==
    /\ Last.op = "next_question" /\ Last.status = 200 /\ Last.completed
    /\ Last.total = 2
    /\ tally[Last.session_id].advances = 2

\* C3: whenever no request is in progress, the stored score of a quiz is the
\* number of answers since its start that selected the correct_index of the
\* question current at the time.
C3_ScoreCountsCorrectAnswers ==
    Idle(SeqProc) =>
        \A sid \in SessionIds : HasQuiz(sid) => StoredQuiz(sid).score = tally[sid].correct

C3_Witness ==
    /\ Last.op = "submit_quiz_answer" /\ Last.status = 200 /\ ~Last.is_correct
    /\ StoredQuiz(Last.session_id).score = 1
    /\ Len(StoredQuiz(Last.session_id).history) = 2

\* the step ends a direct call of update_session_metadata by the client
UpdateWrites(p) == pc[p] = "upd_write" /\ loc[p].op = "update" /\ pc'[p] = "idle"

\* C4: the write of update_session_metadata(s, k, v) leaves a document that
\* has v at k and, at every other key, exactly what was stored before (no
\* key added or removed); get_session_metadata returns the stored document.
C4_UpdateThenGet ==
    /\ [][\A sid \in SessionIds :
            (UpdateWrites(SeqProc) /\ loc[SeqProc].sid = sid /\ session_exists(sid)) =>
                LET before == get_session_metadata(sid)
                    after == get_session_metadata(sid)'
                    k == loc[SeqProc].key
                IN  /\ resp'[SeqProc].updated
                    /\ DOMAIN after = (DOMAIN before) \cup {k}
                    /\ after[k] = loc[SeqProc].val
                    /\ \A x \in DOMAIN before : x # k => after[x] = before[x]]_vars
    /\ [](Last.op = "get_session_metadata" =>
            Last.document = get_session_metadata(Last.session_id))

C4_Witness ==
    /\ Last.op = "get_session_metadata"
    /\ HasKey(Last.document, "note") /\ Last.document["note"] = "n2"
    /\ HasKey(Last.document, "subject") /\ Last.document["subject"] = "Biology"
    /\ HasKey(Last.document, "quiz")

\* the step is the SELECT or the UPDATE that ends update_session_metadata
\* for the request of p
UpdateEnds(p, op) == pc[p] = "upd_write" /\ loc[p].op = op /\ pc'[p] # "upd_write"

\* C5: the UPDATE of update_session_metadata stores the document its own
\* SELECT returned with the one key replaced, whatever the row holds by then,
\* and the call returns true: a write in between is lost.
C5_WritesFromItsOwnRead ==
    [][\A p \in Procs, sid \in SessionIds :
          (UpdateEnds(p, "update") /\ loc[p].sid = sid /\ session_exists(sid)) =>
              /\ resp'[p].updated
              /\ get_session_metadata(sid)' =
                    DictSet(loc[p].cur, loc[p].key, loc[p].val)]_vars

\* both calls returned true, on different keys of one session, and the
\* value the first client wrote is not in the document
C5_Witness ==
    /\ resp["p1"].op = "update_session_metadata" /\ resp["p1"].updated
    /\ resp["p2"].op = "update_session_metadata" /\ resp["p2"].updated
    /\ pc["p1"] = "idle" /\ pc["p2"] = "idle"
    /\ resp["p1"].session_id = resp["p2"].session_id
    /\ resp["p1"].key # resp["p2"].key
    /\ session_exists(resp["p1"].session_id)
    /\ LET doc == get_session_metadata(resp["p1"].session_id)
       IN  IF HasKey(doc, resp["p1"].key) THEN doc[resp["p1"].key] # resp["p1"].value
           ELSE TRUE

\* C6: the UPDATE of an accepted submit stores the quiz that request read
\* plus its own one history entry and its own score increment, whatever the
\* row holds by then, and the request succeeds.
C6_SubmitStoresItsReadPlusOne ==
    [][\A p \in Procs, sid \in SessionIds :
          (UpdateEnds(p, "submit") /\ loc[p].sid = sid /\ session_exists(sid)) =>
              LET read == loc[p].snap["quiz"]
                  after == StoredQuiz(sid)'
                  n == Len(read.history)
              IN  /\ resp'[p].status = 200
                  /\ Len(after.history) = n + 1
                  /\ SubSeq(after.history, 1, n) = read.history
                  /\ after.history[n + 1].correct = resp'[p].is_correct
                  /\ after.score = read.score + (IF resp'[p].is_correct THEN 1 ELSE 0)]_vars

\* two correct answers were accepted since the start, both requests
\* succeeded, and one history entry and one point are stored
C6_Witness ==
    /\ resp["p1"].op = "submit_quiz_answer" /\ resp["p1"].status = 200
    /\ resp["p2"].op = "submit_quiz_answer" /\ resp["p2"].status = 200
    /\ pc["p1"] = "idle" /\ pc["p2"] = "idle"
    /\ resp["p1"].is_correct /\ resp["p2"].is_correct
    /\ resp["p1"].session_id = resp["p2"].session_id
    /\ tally[resp["p1"].session_id].correct = 2
    /\ HasQuiz(resp["p1"].session_id)
    /\ Len(StoredQuiz(resp["p1"].session_id).history) = 1
    /\ StoredQuiz(resp["p1"].session_id).score = 1

\* the step in which p issues POST /quiz/submit for sid
SubmitStarts(p, sid) ==
    /\ Idle(p)
    /\ \/ pc'[p] = "upd_read" /\ loc'[p].op = "submit" /\ loc'[p].sid = sid
       \/ /\ pc'[p] = "idle" /\ resp'[p] # resp[p]
          /\ resp'[p].op = "submit_quiz_answer" /\ resp'[p].session_id = sid

\* C7: a submit that finds current_index >= len(questions) is answered with
\* an error and writes nothing.
C7_SubmitPastEndRejected ==
    [][\A p \in Procs, sid \in SessionIds :
          (/\ SubmitStarts(p, sid)
           /\ HasQuiz(sid)
           /\ StoredQuiz(sid).current_index >= Len(StoredQuiz(sid).questions)) =>
              /\ pc'[p] = "idle"
              /\ resp'[p].status = 400
              /\ sessions' = sessions]_vars

C7_Witness ==
    \E p \in Procs :
        /\ resp[p].op = "submit_quiz_answer" /\ resp[p].status = 400
        /\ resp[p].error = "Quiz already finished"
        /\ HasQuiz(resp[p].session_id)
        /\ Len(StoredQuiz(resp[p].session_id).history) = 0

\* C8: a submit on a session without a quiz (the session may not exist) or
\* with a completed quiz is answered with an error and changes no metadata.
C8_SubmitWithoutActiveQuizRejected ==
    [][\A sid \in SessionIds :
          (/\ SubmitStarts(SeqProc, sid)
           /\ IF HasQuiz(sid) THEN StoredQuiz(sid).completed ELSE TRUE) =>
              /\ pc'[SeqProc] = "idle"
              /\ resp'[SeqProc].status = 400
              /\ sessions' = sessions]_vars

C8_Witness ==
    /\ Last.op = "submit_quiz_answer" /\ Last.status = 400
    /\ HasQuiz(Last.session_id)
    /\ StoredQuiz(Last.session_id).completed
    /\ Len(StoredQuiz(Last.session_id).history) = 1

\* the step in which p issues POST /quiz/start for sid
StartStarts(p, sid) ==
    /\ Idle(p)
    /\ \/ pc'[p] = "start_subject" /\ loc'[p].sid = sid
       \/ /\ pc'[p] = "idle" /\ resp'[p] # resp[p]
          /\ resp'[p].op = "start_quiz" /\ resp'[p].session_id = sid

\* C9: start on a session that does not exist, or whose subject is missing
\* or empty, ends with an error and changes no session.
C9_StartNeedsSessionAndSubject ==
    [][/\ \A sid \in RequestIds :
            (StartStarts(SeqProc, sid) /\ ~session_exists(sid)) =>
                /\ pc'[SeqProc] = "idle"
                /\ resp'[SeqProc].status # 200
                /\ sessions' = sessions
       /\ (/\ pc[SeqProc] = "start_subject"
           /\ pc'[SeqProc] # "start_subject"
           /\ get_session_subject(loc[SeqProc].sid) \in {NoneVal, ""}) =>
                /\ pc'[SeqProc] = "idle"
                /\ resp'[SeqProc].status # 200
                /\ sessions' = sessions]_vars

C9_Witness ==
    /\ Last.op = "start_quiz" /\ Last.status = 400
    /\ session_exists(Last.session_id)
    /\ get_session_subject(Last.session_id) = ""
    /\ ~HasQuiz(Last.session_id)

\* C10: the write of a start stores exactly {questions, current_index = 0,
\* score = 0, completed = FALSE, history = []} under "quiz", whatever was
\* there, keeps every other key of the document and every other session,
\* and the start succeeds.
C10_StartStoresInitialQuiz ==
    [][\A sid \in SessionIds :
          (UpdateEnds(SeqProc, "start") /\ loc[SeqProc].sid = sid) =>
              LET before == get_session_metadata(sid)
                  after == get_session_metadata(sid)'
              IN  /\ resp'[SeqProc].status = 200
                  /\ resp'[SeqProc].body.total = Len(loc[SeqProc].val.questions)
                  /\ DOMAIN after = (DOMAIN before) \cup {"quiz"}
                  /\ after["quiz"] =
                        [questions |-> loc[SeqProc].val.questions, current_index |-> 0,
                         score |-> 0, completed |-> FALSE, history |-> <<>>]
                  /\ \A x \in DOMAIN before : x # "quiz" => after[x] = before[x]
                  /\ \A other \in SessionIds \ {sid} :
                        sessions'[other] = sessions[other]]_vars

\* a start is about to overwrite a completed quiz with answers in it, in a
\* document that has a note
C10_Witness ==
    /\ pc[SeqProc] = "upd_write" /\ loc[SeqProc].op = "start"
    /\ HasQuiz(loc[SeqProc].sid)
    /\ StoredQuiz(loc[SeqProc].sid).completed
    /\ StoredQuiz(loc[SeqProc].sid).score = 1
    /\ HasKey(get_session_metadata(loc[SeqProc].sid), "note")

\* the quizzes that differ from quiz at most in their questions'
\* correct_index values
KeyVariants(quiz) ==
    LET qs == quiz.questions
    IN  { [quiz EXCEPT !.questions =
                [i \in 1 .. Len(qs) |-> [qs[i] EXCEPT !.correct_index = f[i]]]] :
            f \in [1 .. Len(qs) -> AnswerIndexes] }

\* C11: the 200 response of start and of advance is the one the handler
\* gives for every quiz that differs from the session's only in the
\* questions' correct_index values.
C11_AnswerKeyWithheld ==
    [][/\ (UpdateEnds(SeqProc, "start") /\ pc'[SeqProc] = "idle") =>
            \A alt \in KeyVariants(loc[SeqProc].val) :
                resp'[SeqProc] = StartResponse(loc[SeqProc].sid, alt)
       /\ (UpdateEnds(SeqProc, "next") /\ pc'[SeqProc] = "idle") =>
            \A alt \in KeyVariants(loc[SeqProc].val) :
                resp'[SeqProc] = NextResponse(loc[SeqProc].sid, alt)]_vars

\* advance has returned the second question of a quiz whose two questions
\* have different correct_index values
C11_Witness ==
    /\ Last.op = "next_question" /\ Last.status = 200 /\ ~Last.completed
    /\ Last.body.index = 1
    /\ HasQuiz(Last.session_id)
    /\ StoredQuiz(Last.session_id).questions[1].correct_index
          # StoredQuiz(Last.session_id).questions[2].correct_index

\* the step in which p issues POST /quiz/next for sid
NextStarts(p, sid) ==
    /\ Idle(p)
    /\ \/ pc'[p] = "upd_read" /\ loc'[p].op = "next" /\ loc'[p].sid = sid
       \/ /\ pc'[p] = "idle" /\ resp'[p] # resp[p]
          /\ resp'[p].op = "next_question" /\ resp'[p].session_id = sid

\* C12: advance on a session without a quiz is answered with an error and
\* changes no session; on a session with a quiz each of its writes stores
\* the quiz it read with current_index one higher, completed possibly
\* changed, every other field and every other metadata key as it was, and
\* completed ends up TRUE exactly when it was TRUE or the new index is past
\* the last question.
C12_AdvanceMovesIndexByOne ==
    [][\A sid \in SessionIds :
          /\ (NextStarts(SeqProc, sid) /\ ~HasQuiz(sid)) =>
                /\ pc'[SeqProc] = "idle"
                /\ resp'[SeqProc].status = 400
                /\ sessions' = sessions
          /\ (NextStarts(SeqProc, sid) /\ HasQuiz(sid)) => pc'[SeqProc] = "upd_read"
          /\ (UpdateEnds(SeqProc, "next") /\ loc[SeqProc].sid = sid) =>
                LET before == loc[SeqProc].snap
                    after == get_session_metadata(sid)'
                    old == before["quiz"]
                    new == after["quiz"]
                IN  /\ DOMAIN after = DOMAIN before
                    /\ \A x \in DOMAIN before : x # "quiz" => after[x] = before[x]
                    /\ new.current_index = old.current_index + 1
                    /\ new.questions = old.questions
                    /\ new.score = old.score
                    /\ new.history = old.history
                    /\ pc'[SeqProc] = "idle" =>
                          /\ resp'[SeqProc].status = 200
                          /\ new.completed =
                                (old.completed \/ new.current_index >= Len(new.questions))]_vars

\* an advance has completed a quiz that keeps its one answer and its point
C12_Witness ==
    /\ Last.op = "next_question" /\ Last.status = 200 /\ Last.completed
    /\ HasQuiz(Last.session_id)
    /\ StoredQuiz(Last.session_id).score = 1
    /\ Len(StoredQuiz(Last.session_id).history) = 1
    /\ StoredQuiz(Last.session_id).current_index = 2

\* C13: a submit with an answer on an active quiz that has a current
\* question is accepted whatever the history holds, also an entry for the
\* same question; its write appends exactly one entry for the current
\* index and adds one to the score exactly when the selected index is the
\* question's correct_index.
C13_ResubmissionCounts ==
    [][\A sid \in SessionIds :
          /\ (/\ SubmitStarts(SeqProc, sid)
              /\ HasQuiz(sid)
              /\ ~StoredQuiz(sid).completed
              /\ StoredQuiz(sid).current_index < Len(StoredQuiz(sid).questions)) =>
                IF pc'[SeqProc] = "idle"
                THEN resp'[SeqProc].error = "Missing parameters"
                ELSE pc'[SeqProc] = "upd_read"
          /\ (UpdateEnds(SeqProc, "submit") /\ loc[SeqProc].sid = sid) =>
                LET old == loc[SeqProc].snap["quiz"]
                    new == StoredQuiz(sid)'
                    n == Len(old.history)
                    entry == new.history[n + 1]
                    key == old.questions[old.current_index + 1].correct_index
                IN  /\ resp'[SeqProc].status = 200
                    /\ Len(new.history) = n + 1
                    /\ SubSeq(new.history, 1, n) = old.history
                    /\ entry.question_index = old.current_index
                    /\ entry.correct = (entry.selected = key)
                    /\ resp'[SeqProc].is_correct = entry.correct
                    /\ new.score = old.score + (IF entry.selected = key THEN 1 ELSE 0)
                    /\ new.current_index = old.current_index]_vars

\* the same question has been answered correctly twice and both count
C13_Witness ==
    /\ Last.op = "submit_quiz_answer" /\ Last.status = 200 /\ Last.is_correct
    /\ HasQuiz(Last.session_id)
    /\ LET quiz == StoredQuiz(Last.session_id)
       IN  /\ Len(quiz.history) = 2
           /\ quiz.history[1].question_index = quiz.history[2].question_index
           /\ quiz.history[1].correct /\ quiz.history[2].correct
           /\ quiz.score = 2

\* the step in which p calls delete_session(sid)
DeleteStarts(p, sid) ==
    /\ Idle(p)
    /\ \/ pc'[p] = "delete_rows" /\ loc'[p].sid = sid
       \/ /\ pc'[p] = "idle" /\ resp'[p] # resp[p]
          /\ resp'[p].op = "delete_session" /\ resp'[p].session_id = sid

\* C14: delete_session of an id without a sessions row returns False and
\* changes no session and no message.
C14_DeleteMissingIsNoOp ==
    [][\A sid \in SessionIds :
          (DeleteStarts(SeqProc, sid) /\ ~sessions[sid].present) =>
              /\ pc'[SeqProc] = "idle"
              /\ resp'[SeqProc].deleted = FALSE
              /\ sessions' = sessions
              /\ messages' = messages]_vars

\* delete_session has returned False while another session has messages
C14_Witness ==
    /\ Last.op = "delete_session" /\ ~Last.deleted
    /\ ~session_exists(Last.session_id)
    /\ \E s \in SessionIds : session_exists(s) /\ Len(SessionRows(s)) > 0

\* C15: delete_session of an existing session goes on to its DELETEs and
\* returns True; once it has returned True the session does not exist and
\* no message carries its id.
C15_DeleteRemovesSessionAndMessages ==
    /\ [][\A sid \in SessionIds :
            /\ (DeleteStarts(SeqProc, sid) /\ sessions[sid].present) =>
                  pc'[SeqProc] = "delete_rows"
            /\ (pc[SeqProc] = "delete_rows" /\ loc[SeqProc].sid = sid
                  /\ pc'[SeqProc] # "delete_rows") =>
                  /\ pc'[SeqProc] = "idle"
                  /\ resp'[SeqProc].op = "delete_session"
                  /\ resp'[SeqProc].deleted
                  /\ ~sessions'[sid].present
                  /\ \A i \in 1 .. Len(messages') : messages'[i].session_id # sid]_vars
    /\ []((Last.op = "delete_session" /\ Last.deleted) =>
            /\ ~session_exists(Last.session_id)
            /\ SessionRows(Last.session_id) = <<>>)

\* a delete has returned True, one of the two messages appended is gone and
\* the other, of a session that exists, is kept
C15_Witness ==
    /\ Last.op = "delete_session" /\ Last.deleted
    /\ next_msg_id = 3
    /\ Len(messages) = 1
    /\ session_exists(messages[1].session_id)

\* C16: every stored message's session_id names an existing session.
C16_MessagesNameExistingSessions ==
    \A i \in 1 .. Len(messages) : session_exists(messages[i].session_id)

\* C17: a sessions row appears only in a create_session step, under an id
\* no earlier create_session returned, which that call returns; the ids
\* returned so far are never forgotten and every session that exists has
\* one of them.  So a deleted session never exists again and no id is
\* returned twice.
C17_DeletionPermanentIdsFresh ==
    /\ [][/\ used \subseteq used'
          /\ \A sid \in SessionIds :
                (~sessions[sid].present /\ sessions'[sid].present) =>
                    /\ sid \notin used
                    /\ used' = used \cup {sid}
                    /\ resp'[SeqProc].op = "create_session"
                    /\ resp'[SeqProc].session_id = sid
          /\ \A sid \in SessionIds :
                (sid \in used /\ ~sessions[sid].present) => ~sessions'[sid].present]_vars
    /\ [](\A sid \in SessionIds : sessions[sid].present => sid \in used)

\* a session was created after another was deleted, under a different id
C17_Witness ==
    /\ Last.op = "create_session"
    /\ session_exists(Last.session_id)
    /\ \E gone \in used : ~session_exists(gone) /\ gone # Last.session_id

\* C18: in every step each stored message stays as it is (same id,
\* session_id, role, content, provider, created_at, same relative order)
\* unless the step is the DELETE of delete_session for the message's own
\* session; and no row of another id is turned into it.
C18_MessagesAppendOnly ==
    [][/\ \A i \in 1 .. Len(messages) :
            \/ \E j \in 1 .. Len(messages') : messages'[j] = messages[i]
            \/ /\ pc[SeqProc] = "delete_rows"
               /\ loc[SeqProc].sid = messages[i].session_id
               /\ resp'[SeqProc].op = "delete_session"
       /\ \A i \in 1 .. Len(messages), j \in 1 .. Len(messages') :
            messages'[j].id = messages[i].id => messages'[j] = messages[i]
       /\ \A i, k \in 1 .. Len(messages), j, l \in 1 .. Len(messages') :
            (i < k /\ messages'[j] = messages[i] /\ messages'[l] = messages[k]) => j < l]_vars

\* the first message went with its session; the second, appended before
\* that delete, is still stored
C18_Witness ==
    /\ Last.op = "delete_session" /\ Last.deleted
    /\ Len(messages) = 1
    /\ messages[1].id = 2
    /\ messages[1].session_id # Last.session_id

\* C19: a direct update_session_metadata call changes no session before
\* its UPDATE; when its SELECT finds no row it returns False there, and
\* when it finds one it goes on to the UPDATE and returns True.  With one
\* caller at a time the call returns True exactly when the session exists.
C19_UpdateOfMissingSessionFails ==
    /\ [][/\ (Idle(SeqProc) /\ pc'[SeqProc] = "upd_read") => sessions' = sessions
          /\ (pc[SeqProc] = "upd_read" /\ loc[SeqProc].op = "update") =>
                IF sessions[loc[SeqProc].sid].present
                THEN pc'[SeqProc] = "upd_write" /\ sessions' = sessions
                ELSE /\ pc'[SeqProc] = "idle"
                     /\ ~resp'[SeqProc].updated
                     /\ sessions' = sessions
          /\ (UpdateEnds(SeqProc, "update")) =>
                pc'[SeqProc] = "idle" /\ resp'[SeqProc].updated]_vars
    /\ [](Last.op = "update_session_metadata" =>
            (Last.updated <=> session_exists(Last.session_id)))

\* the call has returned False for a deleted session while another session
\* holds a note
C19_Witness ==
    /\ Last.op = "update_session_metadata" /\ ~Last.updated
    /\ Last.session_id \in used
    /\ ~session_exists(Last.session_id)
    /\ \E s \in SessionIds : HasKey(get_session_metadata(s), "note")

\* C20: right after create_session with metadata {"subject": s} for a
\* non-empty s, get_session_subject of the returned id is s.
C20_SubjectRoundTrip ==
    [][\A s \in LogSubjects :
          (s # NoneVal /\ s # "" /\ CreateSession(SeqProc, s)) =>
              /\ resp'[SeqProc].op = "create_session"
              /\ \A sid \in SessionIds :
                    resp'[SeqProc].session_id = sid =>
                        /\ session_exists(sid)'
                        /\ get_session_subject(sid)' = s
              /\ resp'[SeqProc].session_id \in SessionIds]_vars

\* sessions created with two different subjects give each its own back
C20_Witness ==
    /\ Last.op = "create_session"
    /\ get_session_subject(Last.session_id) = "Physics"
    /\ \E other \in SessionIds : get_session_subject(other) = "Biology"

\* C21: a read of an existing session that holds more than limit messages
\* returns the limit messages appended last, oldest first.
C21_ReadsTheLatestLimit ==
    (/\ Last.op = "get_session_messages"
     /\ session_exists(Last.session_id)
     /\ Last.limit < Len(SessionRows(Last.session_id)))
    => LET all == Submitted(Last.session_id)
       IN  Last.messages = SubSeq(all, Len(all) - Last.limit + 1, Len(all))

\* C22: in every reachable state of the store, add_message for any session
\* id ends the same way on the SQLite and on the PostgreSQL variant.
C22_BackendsAgreeOnAppend ==
    \A sid \in SessionIds :
        AddMessageOutcome(FALSE, sid) = AddMessageOutcome(TRUE, sid)

\* C23: no step moves a session's updated_at back: the value a step leaves
\* is never earlier than the one it found, nor than the session's
\* created_at.
C23_UpdatedAtAdvances ==
    [][\A sid \in SessionIds :
          (sessions[sid].present /\ sessions'[sid].present) =>
              /\ sessions'[sid].updated_at >= sessions[sid].updated_at
              /\ sessions'[sid].updated_at >= sessions'[sid].created_at]_vars

\* the step in which p calls list_sessions
ListStarts(p) ==
    /\ Idle(p)
    /\ pc'[p] = "idle"
    /\ resp'[p] # resp[p]
    /\ resp'[p].op = "list_sessions"

\* C24: list_sessions(limit) returns at most limit of the existing sessions,
\* each once, in non-increasing updated_at order, no session left out has a
\* later updated_at than one returned, and when the call before it was an
\* add_message or a successful update_session_metadata on an existing
\* session, that session comes first.
C24_ListsMostRecentlyUpdatedFirst ==
    [][ListStarts(SeqProc) =>
          LET out == resp'[SeqProc].sessions
              n == Len(out)
              before == resp[SeqProc]
          IN  /\ n <= resp'[SeqProc].limit
              /\ \A i \in 1 .. n : session_exists(out[i].id)
              /\ \A i, j \in 1 .. n : i # j => out[i].id # out[j].id
              /\ \A i \in 1 .. n - 1 : out[i].updated_at >= out[i + 1].updated_at
              /\ \A sid \in SessionIds :
                    (session_exists(sid) /\ \A i \in 1 .. n : out[i].id # sid) =>
                        /\ n = resp'[SeqProc].limit
                        /\ \A i \in 1 .. n : sessions[sid].updated_at <= out[i].updated_at
              /\ (/\ before.op \in {"add_message", "update_session_metadata"}
                  /\ session_exists(before.session_id)
                  /\ IF before.op = "update_session_metadata" THEN before.updated
                     ELSE before.status = "ok") =>
                    out[1].id = before.session_id]_vars

\* C25: the connections that are open are those of the operations that
\* are running: an operation that has ended has left none open.
C25_ConnectionsReleased ==
    /\ conns.dropped = 0
    /\ conns.held = Cardinality({ p \in Procs : pc[p] = "in_with" })

\* C26: since the last reset the constructor has run at most once, and all
\* get_db calls that returned since then returned the same instance.
C26_ConstructedOnce ==
    /\ singleton.built <= 1
    /\ \A p, q \in Procs :
          (/\ resp[p].op = "get_db" /\ resp[q].op = "get_db"
           /\ resp[p].epoch = singleton.epoch /\ resp[q].epoch = singleton.epoch)
          => resp[p].instance = resp[q].instance

\* C27: every get_session_metadata call ends normally, with the empty
\* document for a session that does not exist, for a NULL column and for a
\* column whose text is not JSON, and with the stored document otherwise
C27_GetMetadataNeverFails ==
    [][\A sid \in SessionIds :
         GetMetadata(SeqProc, sid) =>
            LET r == resp'[SeqProc]
            IN  /\ r.status = "ok"
                /\ ~session_exists(sid) => r.document = EmptyDoc
                /\ session_exists(sid) =>
                      LET col == sessions[sid].metadata
                      IN  /\ col = NullMeta => r.document = EmptyDoc
                          /\ col = NotJson => r.document = EmptyDoc
                          /\ (~col.null /\ col.valid) => r.document = col.json]_vars

\* a read of a session whose column holds text that is not JSON has
\* returned the empty document
C27_Witness ==
    \E sid \in SessionIds :
        /\ session_exists(sid)
        /\ sessions[sid].metadata = NotJson
        /\ Last.op = "get_session_metadata"
        /\ Last.session_id = sid
        /\ Last.document = EmptyDoc

\* a step of a quiz request of client p: the start of a start, submit or
\* advance request, or a later step of one
QuizRequestStep(p) ==
    \/ \E sid \in RequestIds :
          StartStarts(p, sid) \/ SubmitStarts(p, sid) \/ NextStarts(p, sid)
    \/ pc[p] # "idle" /\ loc[p].op \in {"start", "submit", "next"}

\* C28: no step of a start, submit or advance request changes the messages
\* table: every row of every session stays as it is, none is added and none
\* is removed
C28_QuizLeavesMessagesAlone ==
    [][QuizRequestStep(SeqProc) => messages' = messages]_vars

\* a session that holds messages has had a quiz started, answered and
\* advanced
C28_Witness ==
    \E sid \in SessionIds :
        /\ SessionRows(sid) # <<>>
        /\ HasQuiz(sid)
        /\ Len(StoredQuiz(sid).history) > 0
        /\ tally[sid].advances > 0
        /\ Last.op = "next_question"
        /\ Last.status = 200

\* C29: no step of add_message, update_title or a quiz request changes what
\* get_session_subject returns for an existing session, so it keeps
\* returning what it returned right after create_session
C29_SubjectImmutable ==
    [][\A sid \in SessionIds :
         session_exists(sid) => get_session_subject(sid)' = get_session_subject(sid)]_vars

\* a session created with a subject still has it after a message, a title
\* and a quiz that was started, answered and advanced
C29_Witness ==
    \E sid \in SessionIds :
        /\ get_session_subject(sid) = "Biology"
        /\ SessionRows(sid) # <<>>
        /\ sessions[sid].title # NullTitle
        /\ HasQuiz(sid)
        /\ Len(StoredQuiz(sid).history) > 0
        /\ tally[sid].advances > 0

\* C30: update_title(sid, title) leaves as the title of an existing session
\* "New Chat" for the empty text and otherwise the first TitleLimit
\* characters of the text, and changes no other column of that row, no
\* other row and no message; with no such session it changes nothing
C30_UpdateTitleSetsOnlyTitle ==
    [][\A sid \in SessionIds, title \in TitleInputs :
         UpdateTitle(SeqProc, sid, title) =>
            /\ messages' = messages
            /\ \A o \in SessionIds \ {sid} : sessions'[o] = sessions[o]
            /\ ~session_exists(sid) => sessions'[sid] = sessions[sid]
            /\ session_exists(sid) =>
                  LET new == sessions'[sid].title
                  IN  /\ ~new.null
                      /\ title = <<>> => new.text = NewChat
                      /\ title # <<>> =>
                            /\ Len(new.text) =
                                  (IF Len(title) > TitleLimit THEN TitleLimit ELSE Len(title))
                            /\ \A i \in 1 .. Len(new.text) : new.text[i] = title[i]
                      /\ sessions'[sid] = [sessions[sid] EXCEPT !.title = new]]_vars

\* a title longer than TitleLimit was given for a session that has metadata
\* and messages, and the stored title is TitleLimit characters long
C30_Witness ==
    \E sid \in SessionIds :
        /\ Last.op = "update_title"
        /\ Last.session_id = sid
        /\ Len(Last.title) > TitleLimit
        /\ session_exists(sid)
        /\ Len(sessions[sid].title.text) = TitleLimit
        /\ HasKey(get_session_metadata(sid), "note")
        /\ SessionRows(sid) # <<>>

\* C31: every construction of the store ends normally, leaves the tables,
\* columns and index that a first construction on an empty database leaves,
\* leaves every sessions and messages row as it was, and one more
\* construction would change nothing of the schema
C31_SchemaSetupIdempotent ==
    [][Construct(SeqProc) =>
         /\ resp'[SeqProc].status = "ok"
         /\ Tables(schema') = Tables(FullSchema(is_postgres))
         /\ Tables(CreateTables(schema', is_postgres).schema) = Tables(schema')
         /\ sessions' = sessions
         /\ messages' = messages]_vars

\* the store was constructed again on a database that has all columns and
\* holds a session and a message
C31_Witness ==
    /\ Last.op = "construct"
    /\ schema.log >= 2
    /\ \E sid \in SessionIds : session_exists(sid) /\ SessionRows(sid) # <<>>

\* C32: in every state of the sessions table, a stored quiz has completed =
\* TRUE exactly when its current_index is at or past the number of its
\* questions; this includes the states between the two writes of one
\* next_question call
C32_CompletedIffPastLast ==
    \A sid \in SessionIds :
        HasQuiz(sid) =>
            (StoredQuiz(sid).completed <=>
                StoredQuiz(sid).current_index >= Len(StoredQuiz(sid).questions))

\* C36: in every state of the sessions table, a stored quiz has
\* 0 <= current_index <= len(questions)
C36_IndexWithinQuestions ==
    \A sid \in SessionIds :
        HasQuiz(sid) =>
            /\ 0 <= StoredQuiz(sid).current_index
            /\ StoredQuiz(sid).current_index <= Len(StoredQuiz(sid).questions)

\* C33: the messages table and a session's updated_at change only in the
\* commit step of an add_message, which adds the row and writes updated_at
\* of its session in the same step; a step of add_message that ends in an
\* error changes neither, and no earlier step of that call has changed them
C33_AppendIsAtomic ==
    [][\A p \in Procs :
         /\ (pc[p] = "add_commit" /\ pc'[p] = "idle") =>
               /\ messages' = InsertById(messages, loc[p].row)
               /\ session_exists(loc[p].sid) =>
                     sessions'[loc[p].sid].updated_at = loc[p].stamp
               /\ resp'[p].status = "ok"
         /\ ((Idle(p) \/ pc[p] = "add_update") /\ pc'[p] \in {"add_update", "add_commit", "idle"}
              /\ (pc'[p] = "idle" => resp'[p].op = "add_message")
              /\ <<pc[p], resp[p]>> # <<pc'[p], resp'[p]>>) =>
               /\ messages' = messages
               /\ sessions' = sessions]_vars

\* a message was committed while another add_message was inside its
\* transaction, and an add_message has ended in an error after its INSERT
C33_Witness ==
    /\ Len(messages) > 0
    /\ \E p \in Procs : pc[p] = "add_commit" /\ session_exists(loc[p].sid)
    /\ \E p \in Procs : resp[p].op = "add_message" /\ resp[p].status = "error"

\* C34: in what a read of all messages of a session returns, of two
\* messages with equal created_at the one with the smaller id comes first
C34_TiesBrokenById ==
    (/\ Last.op = "get_session_messages"
     /\ Last.limit >= Len(SessionRows(Last.session_id)))
    => LET rows == SessionRows(Last.session_id)
           out == Last.messages
           Pos(x) == CHOOSE k \in 1 .. Len(out) : out[k] = x
       IN  \A i, j \in 1 .. Len(rows) :
              (/\ rows[i].id < rows[j].id
               /\ rows[i].created_at = rows[j].created_at
               /\ Project(rows[i]) # Project(rows[j]))
              => Pos(Project(rows[i])) < Pos(Project(rows[j]))

\* C35: add_message returns the value of the id sequence, which is larger
\* than the id of every row in the table and is never lowered by any
\* operation, deletes included; so each returned id is larger than all ids
\* returned before
C35_MessageIdsIncrease ==
    [][/\ next_msg_id' >= next_msg_id
       /\ \A i \in 1 .. Len(messages) : messages[i].id < next_msg_id
       /\ \A sid \in SessionIds, m \in MessageInputs :
             (AddMessage(SeqProc, sid, m) /\ resp'[SeqProc].status = "ok") =>
                /\ resp'[SeqProc].msg_id >= next_msg_id
                /\ next_msg_id' > resp'[SeqProc].msg_id]_vars

\* an append after a delete that removed messages got an id larger than the
\* number of rows left
C35_Witness ==
    /\ Last.op = "add_message"
    /\ Last.status = "ok"
    /\ Last.msg_id > Len(messages)
    /\ \E sid \in used : ~session_exists(sid)

\* C39: of the delete_session calls for one session id at most one returns
\* True (session ids are never given out twice)
C39_OneDeleteReturnsTrue ==
    \A p, q \in Procs :
        (/\ p # q
         /\ resp[p].op = "delete_session"
         /\ resp[q].op = "delete_session"
         /\ resp[p].session_id = resp[q].session_id)
        => ~(resp[p].deleted /\ resp[q].deleted)

\* C37: no step other than the write of a start lowers the current_index
\* of a stored quiz
C37_IndexNeverDecreases ==
    [][\A sid \in SessionIds :
         (/\ HasQuiz(sid)
          /\ HasQuiz(sid)'
          /\ \A p \in Procs : ~(pc[p] = "upd_write" /\ loc[p].op = "start" /\ pc'[p] # pc[p]))
         => StoredQuiz(sid)'.current_index >= StoredQuiz(sid).current_index]_vars

\* the write of a request of kind op on session sid by the one client
WriteOf(op, sid) ==
    /\ pc[SeqProc] = "upd_write"
    /\ loc[SeqProc].op = op
    /\ loc[SeqProc].sid = sid
    /\ pc'[SeqProc] # pc[SeqProc]

\* C38: with one request at a time, every stored quiz has a score equal to
\* the number of its history entries with correct = TRUE; the write of a
\* start leaves an empty history, the write of each accepted submit makes
\* the history one entry longer, and no other step changes its length
C38_ScoreAndHistoryCount ==
    [][\A sid \in SessionIds :
         HasQuiz(sid)' =>
            LET before == IF HasQuiz(sid) THEN Len(StoredQuiz(sid).history) ELSE 0
            IN  /\ StoredQuiz(sid)'.score =
                      Cardinality({ i \in 1 .. Len(StoredQuiz(sid)'.history) :
                                      StoredQuiz(sid)'.history[i].correct })
                /\ Len(StoredQuiz(sid)'.history) =
                      (IF WriteOf("start", sid) THEN 0
                       ELSE IF WriteOf("submit", sid) THEN before + 1
                       ELSE before)]_vars

\* a quiz is stored with one correct and one wrong answer in its history
C38_Witness ==
    \E sid \in SessionIds :
        /\ HasQuiz(sid)
        /\ Len(StoredQuiz(sid).history) = 2
        /\ StoredQuiz(sid).score = 1
        /\ Idle(SeqProc)

\* C40: a start that has passed its existence and subject checks and ends
\* when its session is gone answers with an error status and no question,
\* and its last step leaves the sessions table as it is (the session is not
\* back and no quiz is stored)
C40_StartOnDeletedSessionFails ==
    [][\A p \in Procs :
         (/\ pc[p] \in {"upd_read", "upd_write"}
          /\ loc[p].op = "start"
          /\ ~session_exists(loc[p].sid)
          /\ pc'[p] = "idle")
         => /\ resp'[p].op = "start_quiz"
            /\ resp'[p].status # 200
            /\ sessions' = sessions]_vars

====
